---- MODULE Spec2Model ----
(***************************************************************************)
(* A model of the three generic sorting routines of                        *)
(* src/CF.STL_Algorithm/algorithm.cpp (selection_sort, quicksort,          *)
(* merge_sort) and of the library primitives they are built from           *)
(* (std::min_element, std::iter_swap, std::partition, std::inplace_merge). *)
(*                                                                         *)
(* The container is the sequence mem; an iterator is a position 1..Len+1   *)
(* and a range is a half-open pair [first, last).  Every element carries   *)
(* its key k (the only thing operator< looks at) and a tag t (its position *)
(* in the container when it was built), so that equal keys stay            *)
(* distinguishable.  Each thread of control p has a call stack of frames;  *)
(* one action is one statement of the source, a library call being one     *)
(* statement.                                                              *)
(***************************************************************************)
EXTENDS Integers, Sequences, FiniteSets, TLC

VARIABLES
  mem,        \* the container: a sequence of elements
  ord,        \* the operator< of the element type
  cont,       \* the container type, which fixes the iterator category
  stack,      \* per thread: the call stack, the running frame last
  st,         \* per thread: "idle", "running", "returned" or "overflow"
  todo,       \* per thread: how many sort calls its caller still makes
  range,      \* per thread: the range <<first, last>> its caller sorts
  orig,       \* per thread: the container as it was when the call began
  alg,        \* per thread: the sort that was called
  comparator, \* per thread: the comparator its caller wants the sort to use
  blk,        \* the statement of the std::move block the main thread is at
  pos,        \* the position of the block's running loop in vt or lt
  vt,         \* std::vector<std::thread> vt: the thread each object owns
  lt,         \* std::list<std::thread> lt: the thread each object owns
  thread,     \* per f_sleep thread: how far it has run
  joins,      \* per f_sleep thread: how many joins have returned on it
  terminated  \* std::terminate was called

\* the state of the std::move block
move_block == <<blk, pos, vt, lt, thread, joins, terminated>>

vars == <<mem, ord, cont, stack, st, todo, range, orig, alg, comparator, move_block>>

-----------------------------------------------------------------------------
(* Bounds of the model. *)

\* the longest container built by Init
MaxLen == 4
\* keys are 1..MaxKey
MaxKey == 3

Procs == {1, 2}

Keys == 1..MaxKey

-----------------------------------------------------------------------------
(* The element type and its operator<. *)

Elem(k, t) == [k |-> k, t |-> t]

\* The template parameter's operator<: "lt" is the built-in < of int, "gt" an
\* element type whose operator< is the reverse order, "le" a reflexive
\* operator< (a <= b) and "cyc" a non-transitive one (rock-paper-scissors on
\* the key modulo 3).  Only "lt" and "gt" are strict weak orders.
Orders == {"lt", "gt", "le", "cyc"}

StrictWeak == {"lt", "gt"}

\* (mutant) the keys compared with the built-in <, whatever operator< the
\* element type defines
less_builtin(o, a, b) == a.k < b.k

less(o, a, b) ==
  CASE o = "lt"  -> a.k < b.k
    [] o = "gt"  -> a.k > b.k
    [] o = "le"  -> a.k <= b.k
    [] o = "cyc" -> (b.k - a.k) % 3 = 1

\* forward_list gives forward iterators, vector random-access ones.
Containers == {"forward_list", "vector"}

-----------------------------------------------------------------------------
(* Library primitives, as operators on the container. *)

\* (mutant) the exchange written as a single assignment: *a = *b
iter_swap_overwrite(s, a, b) == [s EXCEPT ![a] = s[b]]

\* std::iter_swap(a, b)
iter_swap(s, a, b) == [s EXCEPT ![a] = s[b], ![b] = s[a]]

\* std::min_element(first, last): the first smallest element; last when the
\* range is empty.
RECURSIVE min_loop(_, _, _, _, _)

\* (mutant) the comparison turned round: *smallest < *j
min_loop_reversed(o, s, smallest, j, last) ==
  IF j >= last THEN smallest
  ELSE min_loop(o, s, IF less(o, s[smallest], s[j]) THEN j ELSE smallest, j + 1, last)

min_loop(o, s, smallest, j, last) ==
  IF j >= last THEN smallest
  ELSE min_loop(o, s, IF less(o, s[j], s[smallest]) THEN j ELSE smallest, j + 1, last)

\* (mutant) the scan runs to the end of the container, not to last
min_element_to_end(o, s, first, last) ==
  IF first = last THEN last ELSE min_loop(o, s, first, first + 1, Len(s) + 1)

\* (mutant) no scan: the first position is taken for the smallest
min_element_first(o, s, first, last) == first

min_element(o, s, first, last) ==
  IF first = last THEN last ELSE min_loop(o, s, first, first + 1, last)

\* std::find_if_not(first, last, p)
RECURSIVE find_if_not(_, _, _, _)
find_if_not(pr, s, first, last) ==
  IF first = last THEN last
  ELSE IF pr[s[first]] THEN find_if_not(pr, s, first + 1, last)
  ELSE first

\* std::partition on forward iterators: the elements satisfying the predicate
\* are exchanged forward one by one.
RECURSIVE partition_forward_loop(_, _, _, _, _)
partition_forward_loop(pr, s, first, next, last) ==
  IF next = last THEN [m |-> s, it |-> first]
  ELSE IF pr[s[next]]
       THEN partition_forward_loop(pr, iter_swap(s, first, next), first + 1, next + 1, last)
       ELSE partition_forward_loop(pr, s, first, next + 1, last)

partition_forward(pr, s, first, last) ==
  LET f == find_if_not(pr, s, first, last)
  IN  IF f = last THEN [m |-> s, it |-> last]
      ELSE partition_forward_loop(pr, s, f, f + 1, last)

\* the inner backward scan of the bidirectional std::partition: from l down
\* to f, the first position whose element satisfies the predicate (f if none)
RECURSIVE scan_back(_, _, _, _)
scan_back(pr, s, f, l) ==
  IF f = l THEN f
  ELSE IF ~pr[s[l]] THEN scan_back(pr, s, f, l - 1)
  ELSE l

\* std::partition on bidirectional (and random-access) iterators: two cursors
\* closing in from both ends, exchanging misplaced pairs.
RECURSIVE partition_bidirectional(_, _, _, _)
partition_bidirectional(pr, s, first, last) ==
  LET f == find_if_not(pr, s, first, last)
  IN  IF f = last THEN [m |-> s, it |-> f]
      ELSE LET l == scan_back(pr, s, f, last - 1)
           IN  IF f = l THEN [m |-> s, it |-> f]
               ELSE partition_bidirectional(pr, iter_swap(s, f, l), f + 1, l)

\* The operations a library call applies to the cursors it is given:
\*   "eq" ==, !=    "deref" *it    "inc" ++it    "swap" exchange of *a and *b
\*   "dec" --it     "sub" b - a    "add" it + n
\* the forward std::partition advances and exchanges
partition_forward_ops(pr, s, first, last) ==
  IF first = last THEN {"eq"}
  ELSE {"eq", "deref", "inc"}
         \cup (IF partition_forward(pr, s, first, last).m # s THEN {"swap"} ELSE {})

\* the bidirectional std::partition steps last backward as soon as an element
\* fails the predicate
partition_bidirectional_ops(pr, s, first, last) ==
  LET f       == find_if_not(pr, s, first, last)
      swapped == partition_bidirectional(pr, s, first, last).m # s
  IN  IF first = last THEN {"eq"}
      ELSE {"eq", "deref"}
             \cup (IF f # first \/ swapped THEN {"inc"} ELSE {})
             \cup (IF f # last THEN {"dec"} ELSE {})
             \cup (IF swapped THEN {"swap"} ELSE {})

\* (mutant) std::stable_partition in place of std::partition: both groups
\* keep the order they had
partition_stable(c, pr, s, first, last) ==
  LET r  == SubSeq(s, first, last - 1)
      y  == SelectSeq(r, LAMBDA e : pr[e])
      n  == SelectSeq(r, LAMBDA e : ~pr[e])
      yn == y \o n
  IN  [m   |-> [j \in DOMAIN s |-> IF j >= first /\ j < last THEN yn[j - first + 1] ELSE s[j]],
       it  |-> first + Len(y),
       ops |-> {"eq", "deref", "inc", "swap"}]

\* (mutant) no dispatch: the bidirectional std::partition whatever the
\* iterator category
partition_bidirectional_always(c, pr, s, first, last) ==
  LET r == partition_bidirectional(pr, s, first, last)
  IN  [m |-> r.m, it |-> r.it, ops |-> partition_bidirectional_ops(pr, s, first, last)]

\* std::partition(first, last, p), dispatched on the iterator category
partition(c, pr, s, first, last) ==
  IF c = "forward_list"
  THEN LET r == partition_forward(pr, s, first, last)
       IN  [m |-> r.m, it |-> r.it, ops |-> partition_forward_ops(pr, s, first, last)]
  ELSE LET r == partition_bidirectional(pr, s, first, last)
       IN  [m |-> r.m, it |-> r.it, ops |-> partition_bidirectional_ops(pr, s, first, last)]

\* std::min_element and std::iter_swap need forward iterators only
min_element_ops(first, last) ==
  IF first = last THEN {"eq"}
  ELSE {"eq", "inc"} \cup (IF last - first >= 2 THEN {"deref"} ELSE {})

iter_swap_ops == {"deref", "swap"}

\* std::distance(first, last): counted with ++ on forward iterators, last - first
\* on random-access ones
distance_ops(c, first, last) ==
  IF c = "forward_list" THEN {"eq"} \cup (IF first # last THEN {"inc"} ELSE {})
  ELSE {"sub"}

\* std::next(it, n): n times ++ on forward iterators, it + n on random-access
\* ones
next_ops(c, n) ==
  IF c = "forward_list" THEN (IF n > 0 THEN {"inc"} ELSE {}) ELSE {"add"}

\* std::inplace_merge requires bidirectional iterators
inplace_merge_ops == {"eq", "deref", "inc", "dec", "swap"}

\* std::merge of two sequences: the element of the second is taken only when
\* it is less than the element of the first.
RECURSIVE merge(_, _, _)

\* (mutant) the test turned round: the element of the first is taken only
\* when it is less than the element of the second
merge_ties_second(o, a, b) ==
  IF a = <<>> THEN b
  ELSE IF b = <<>> THEN a
  ELSE IF less(o, Head(a), Head(b)) THEN <<Head(a)>> \o merge(o, Tail(a), b)
  ELSE <<Head(b)>> \o merge(o, a, Tail(b))

merge(o, a, b) ==
  IF a = <<>> THEN b
  ELSE IF b = <<>> THEN a
  ELSE IF less(o, Head(b), Head(a)) THEN <<Head(b)>> \o merge(o, a, Tail(b))
  ELSE <<Head(a)>> \o merge(o, Tail(a), b)

\* (mutant) the two halves are left as they are
inplace_merge_none(o, s, first, middle, last) == s

\* std::inplace_merge(first, middle, last)
inplace_merge(o, s, first, middle, last) ==
  LET a == SubSeq(s, first, middle - 1)
      b == SubSeq(s, middle, last - 1)
      r == merge(o, a, b)
  IN  [j \in DOMAIN s |-> IF j >= first /\ j < last THEN r[j - first + 1] ELSE s[j]]

-----------------------------------------------------------------------------
(* Call frames. *)

NoElem == Elem(0, 0)

Frame(fn, first, last) ==
  [fn |-> fn, pc |-> "entry", first |-> first, last |-> last,
   i |-> first, pivot |-> NoElem, middle1 |-> first, middle2 |-> first,
   middle |-> first]

Top(p) == stack[p][Len(stack[p])]

Running(p) == st[p] = "running" /\ stack[p] # <<>>

\* The stack a call may use: more nested calls than the container has
\* elements, plus two, is recursion that does not shrink its range and ends
\* in a stack overflow.
StackLimit == Len(mem) + 2

SetTop(p, f) == [stack EXCEPT ![p] = [@ EXCEPT ![Len(@)] = f]]

Pop(p) == [stack EXCEPT ![p] = SubSeq(@, 1, Len(@) - 1)]

\* the caller moves to pc and the callee's frame is pushed; a push past the
\* stack limit is the stack overflow
Push(p, pc, f) ==
  IF Len(stack[p]) >= StackLimit
  THEN /\ st' = [st EXCEPT ![p] = "overflow"]
       /\ UNCHANGED stack
  ELSE /\ stack' = [stack EXCEPT ![p] = Append([@ EXCEPT ![Len(@)].pc = pc], f)]
       /\ UNCHANGED st

\* return from the top frame; the outermost return ends the call
Return(p) ==
  /\ stack' = Pop(p)
  /\ st' = IF Len(stack[p]) = 1 THEN [st EXCEPT ![p] = "returned"] ELSE st

Untouched == UNCHANGED <<ord, cont, todo, range, orig, alg, comparator, move_block>>

-----------------------------------------------------------------------------
(* The caller. *)

Sorts == {"selection_sort", "quicksort", "merge_sort"}

\* merge_sort computes last - first and first + n: it compiles only for
\* random-access iterators.
Compiles(fn, c) == fn = "merge_sort" => c = "vector"

\* The three sorts are called as fn(first, last).  No signature has a
\* comparator parameter: whatever order the caller wants (comparator), the
\* call passes the range alone and the sort orders by operator<.
Call(p, fn) ==
  /\ stack[p] = <<>>
  /\ st[p] # "overflow"
  /\ todo[p] > 0
  /\ Compiles(fn, cont)
  /\ stack' = [stack EXCEPT ![p] = <<Frame(fn, range[p][1], range[p][2])>>]
  /\ st' = [st EXCEPT ![p] = "running"]
  /\ todo' = [todo EXCEPT ![p] = @ - 1]
  /\ orig' = [orig EXCEPT ![p] = mem]
  /\ alg' = [alg EXCEPT ![p] = fn]
  /\ UNCHANGED <<mem, ord, cont, range, comparator, move_block>>

-----------------------------------------------------------------------------
(* selection_sort *)

\* for (i = begin; i != end; ++i) iter_swap(i, min_element(i, end));
SelectionIter(p) ==
  /\ Running(p)
  /\ Top(p).fn = "selection_sort"
  /\ Top(p).i # Top(p).last
  /\ mem' = iter_swap(mem, Top(p).i, min_element(ord, mem, Top(p).i, Top(p).last))
  /\ stack' = SetTop(p, [Top(p) EXCEPT !.pc = "loop", !.i = @ + 1])
  /\ UNCHANGED st
  /\ Untouched

SelectionReturn(p) ==
  /\ Running(p)
  /\ Top(p).fn = "selection_sort"
  /\ Top(p).i = Top(p).last
  /\ Return(p)
  /\ UNCHANGED mem
  /\ Untouched

-----------------------------------------------------------------------------
(* quicksort *)

\* (mutant) state kept across calls: once a call has been made, the
\* following ones return at once
QuickEntry_CallCount(p) ==
  /\ Running(p)
  /\ Top(p).fn = "quicksort"
  /\ Top(p).pc = "entry"
  /\ IF Top(p).first = Top(p).last \/ todo[p] = 0
     THEN Return(p)
     ELSE /\ stack' = SetTop(p, [Top(p) EXCEPT !.pc = "pivot"])
          /\ UNCHANGED st
  /\ UNCHANGED mem
  /\ Untouched

\* if (first == last) return;
QuickEntry(p) ==
  /\ Running(p)
  /\ Top(p).fn = "quicksort"
  /\ Top(p).pc = "entry"
  /\ IF Top(p).first = Top(p).last
     THEN Return(p)
     ELSE /\ stack' = SetTop(p, [Top(p) EXCEPT !.pc = "pivot"])
          /\ UNCHANGED st
  /\ UNCHANGED mem
  /\ Untouched

\* (mutant) the pivot read at first: *std::next(first, 0)
QuickPivot_First(p) ==
  /\ Running(p)
  /\ Top(p).fn = "quicksort"
  /\ Top(p).pc = "pivot"
  /\ LET f == Top(p)
     IN  stack' = SetTop(p, [f EXCEPT !.pc = "partition1", !.pivot = mem[f.first]])
  /\ UNCHANGED <<mem, st>>
  /\ Untouched

\* auto pivot = *std::next(first, std::distance(first, last) / 2);
QuickPivot(p) ==
  /\ Running(p)
  /\ Top(p).fn = "quicksort"
  /\ Top(p).pc = "pivot"
  /\ LET f == Top(p)
     IN  stack' = SetTop(p, [f EXCEPT !.pc = "partition1",
                                      !.pivot = mem[f.first + (f.last - f.first) \div 2]])
  /\ UNCHANGED <<mem, st>>
  /\ Untouched

ElemsOf(s) == {s[j] : j \in DOMAIN s}

\* (mutant) the comparison turned round: pivot < em
PivotLessThan(o, s, pivot) == [em \in ElemsOf(s) |-> less(o, pivot, em)]

\* [pivot](const auto& em) { return em < pivot; }
LessThanPivot(o, s, pivot) == [em \in ElemsOf(s) |-> less(o, em, pivot)]

\* (mutant) the negation dropped: pivot < em
GreaterThanPivot(o, s, pivot) == [em \in ElemsOf(s) |-> less(o, pivot, em)]

\* [pivot](const auto& em) { return !(pivot < em); }
NotGreaterThanPivot(o, s, pivot) == [em \in ElemsOf(s) |-> ~less(o, pivot, em)]

\* middle1 = std::partition(first, last, em < pivot)
QuickPartition1(p) ==
  /\ Running(p)
  /\ Top(p).fn = "quicksort"
  /\ Top(p).pc = "partition1"
  /\ LET f == Top(p)
         r == partition(cont, LessThanPivot(ord, mem, f.pivot), mem, f.first, f.last)
     IN  /\ mem' = r.m
         /\ stack' = SetTop(p, [f EXCEPT !.pc = "partition2", !.middle1 = r.it])
  /\ UNCHANGED st
  /\ Untouched

\* middle2 = std::partition(middle1, last, !(pivot < em))
QuickPartition2(p) ==
  /\ Running(p)
  /\ Top(p).fn = "quicksort"
  /\ Top(p).pc = "partition2"
  /\ LET f == Top(p)
         r == partition(cont, NotGreaterThanPivot(ord, mem, f.pivot), mem, f.middle1, f.last)
     IN  /\ mem' = r.m
         /\ stack' = SetTop(p, [f EXCEPT !.pc = "recurse1", !.middle2 = r.it])
  /\ UNCHANGED st
  /\ Untouched

\* quicksort(first, middle1);
QuickRecurse1(p) ==
  /\ Running(p)
  /\ Top(p).fn = "quicksort"
  /\ Top(p).pc = "recurse1"
  /\ Push(p, "recurse2", Frame("quicksort", Top(p).first, Top(p).middle1))
  /\ UNCHANGED mem
  /\ Untouched

\* (mutant) the two-way quicksort: the block equal to the pivot is not
\* carved out, quicksort(middle1, last)
QuickRecurse2_NoCarve(p) ==
  /\ Running(p)
  /\ Top(p).fn = "quicksort"
  /\ Top(p).pc = "recurse2"
  /\ Push(p, "return", Frame("quicksort", Top(p).middle1, Top(p).last))
  /\ UNCHANGED mem
  /\ Untouched

\* quicksort(middle2, last);
QuickRecurse2(p) ==
  /\ Running(p)
  /\ Top(p).fn = "quicksort"
  /\ Top(p).pc = "recurse2"
  /\ Push(p, "return", Frame("quicksort", Top(p).middle2, Top(p).last))
  /\ UNCHANGED mem
  /\ Untouched

QuickReturn(p) ==
  /\ Running(p)
  /\ Top(p).fn = "quicksort"
  /\ Top(p).pc = "return"
  /\ Return(p)
  /\ UNCHANGED mem
  /\ Untouched

-----------------------------------------------------------------------------
(* merge_sort *)

\* (mutant) the base case off by one: if (last - first > 0)
MergeEntry_OffByOne(p) ==
  /\ Running(p)
  /\ Top(p).fn = "merge_sort"
  /\ Top(p).pc = "entry"
  /\ LET f == Top(p)
     IN  IF f.last - f.first > 0
         THEN /\ stack' = SetTop(p, [f EXCEPT !.pc = "recurse1",
                                              !.middle = f.first + (f.last - f.first) \div 2])
              /\ UNCHANGED st
         ELSE Return(p)
  /\ UNCHANGED mem
  /\ Untouched

\* if (last - first > 1) { Iter middle = first + (last - first) / 2; ... }
MergeEntry(p) ==
  /\ Running(p)
  /\ Top(p).fn = "merge_sort"
  /\ Top(p).pc = "entry"
  /\ LET f == Top(p)
     IN  IF f.last - f.first > 1
         THEN /\ stack' = SetTop(p, [f EXCEPT !.pc = "recurse1",
                                              !.middle = f.first + (f.last - f.first) \div 2])
              /\ UNCHANGED st
         ELSE Return(p)
  /\ UNCHANGED mem
  /\ Untouched

\* merge_sort(first, middle);
MergeRecurse1(p) ==
  /\ Running(p)
  /\ Top(p).fn = "merge_sort"
  /\ Top(p).pc = "recurse1"
  /\ Push(p, "recurse2", Frame("merge_sort", Top(p).first, Top(p).middle))
  /\ UNCHANGED mem
  /\ Untouched

\* merge_sort(middle, last);
MergeRecurse2(p) ==
  /\ Running(p)
  /\ Top(p).fn = "merge_sort"
  /\ Top(p).pc = "recurse2"
  /\ Push(p, "merge", Frame("merge_sort", Top(p).middle, Top(p).last))
  /\ UNCHANGED mem
  /\ Untouched

\* std::inplace_merge(first, middle, last);
MergeMerge(p) ==
  /\ Running(p)
  /\ Top(p).fn = "merge_sort"
  /\ Top(p).pc = "merge"
  /\ mem' = inplace_merge(ord, mem, Top(p).first, Top(p).middle, Top(p).last)
  /\ stack' = SetTop(p, [Top(p) EXCEPT !.pc = "return"])
  /\ UNCHANGED st
  /\ Untouched

MergeReturn(p) ==
  /\ Running(p)
  /\ Top(p).fn = "merge_sort"
  /\ Top(p).pc = "return"
  /\ Return(p)
  /\ UNCHANGED mem
  /\ Untouched

-----------------------------------------------------------------------------
(* The library calls followed step by step: one step for each comparison,   *)
(* each exchange and each copy of an element.  The statements that touch no *)
(* element through the library are the actions above.                       *)

\* While a frame is inside a library call it also holds the locals of that
\* call: ph, the place in the call; cur and cur2, its cursors; buf, its buffer.
InLibrary(f, ph, cur, cur2, buf) ==
  [fn |-> f.fn, pc |-> f.pc, first |-> f.first, last |-> f.last, i |-> f.i,
   pivot |-> f.pivot, middle1 |-> f.middle1, middle2 |-> f.middle2, middle |-> f.middle,
   ph |-> ph, cur |-> cur, cur2 |-> cur2, buf |-> buf]

\* the frame when the library call has returned
OutOfLibrary(f) ==
  [fn |-> f.fn, pc |-> f.pc, first |-> f.first, last |-> f.last, i |-> f.i,
   pivot |-> f.pivot, middle1 |-> f.middle1, middle2 |-> f.middle2, middle |-> f.middle]

\* the place of the frame in its library call; "start" outside one
Ph(f) == IF "ph" \in DOMAIN f THEN f.ph ELSE "start"

\* (mutant) the scan of std::min_element runs to the end of the container
ScanEnd_Container(p) == Len(mem) + 1

\* the end of the scan of std::min_element(i, end)
ScanEnd(p) == Top(p).last

\* std::min_element(i, end) begins: smallest = i, the scan at i + 1
FineSelectionBegin(p) ==
  /\ Running(p)
  /\ Top(p).fn = "selection_sort"
  /\ Ph(Top(p)) = "start"
  /\ Top(p).i # Top(p).last
  /\ stack' = SetTop(p, InLibrary(Top(p), "scan", Top(p).i, Top(p).i + 1, <<>>))
  /\ UNCHANGED <<mem, st>>
  /\ Untouched

\* one comparison of the scan: if (*first < *smallest) smallest = first;
FineSelectionCompare(p) ==
  /\ Running(p)
  /\ Top(p).fn = "selection_sort"
  /\ Ph(Top(p)) = "scan"
  /\ Top(p).cur2 # ScanEnd(p)
  /\ LET f == Top(p)
     IN  stack' = SetTop(p, [f EXCEPT !.cur = IF less(ord, mem[f.cur2], mem[f.cur])
                                               THEN f.cur2 ELSE f.cur,
                                      !.cur2 = f.cur2 + 1])
  /\ UNCHANGED <<mem, st>>
  /\ Untouched

\* the scan is over: std::iter_swap(i, smallest); ++i
FineSelectionSwap(p) ==
  /\ Running(p)
  /\ Top(p).fn = "selection_sort"
  /\ Ph(Top(p)) = "scan"
  /\ Top(p).cur2 = ScanEnd(p)
  /\ LET f == Top(p)
     IN  /\ mem' = iter_swap(mem, f.i, f.cur)
         /\ stack' = SetTop(p, [OutOfLibrary(f) EXCEPT !.pc = "loop", !.i = f.i + 1])
  /\ UNCHANGED st
  /\ Untouched

\* One step of std::partition(first, last, pr): f is the cursor that
\* advances, x the second cursor (next of the forward version, last of the
\* bidirectional one).  ph "done": f is the iterator returned.
partition_step(c, pr, s, ph, f, x, last) ==
  LET done(it) == [m |-> s, ph |-> "done", f |-> it, x |-> it]
  IN  CASE ph = "find" ->
             IF pr[s[f]]
             THEN IF f + 1 = x THEN done(f + 1)
                  ELSE [m |-> s, ph |-> "find", f |-> f + 1, x |-> x]
             ELSE IF c = "forward_list"
                  THEN IF f + 1 = last THEN done(f)
                       ELSE [m |-> s, ph |-> "next", f |-> f, x |-> f + 1]
                  ELSE IF f = x - 1 THEN done(f)
                       ELSE [m |-> s, ph |-> "back", f |-> f, x |-> x - 1]
        [] ph = "next" ->
             IF pr[s[x]] THEN [m |-> s, ph |-> "swap", f |-> f, x |-> x]
             ELSE IF x + 1 = last THEN done(f)
                  ELSE [m |-> s, ph |-> "next", f |-> f, x |-> x + 1]
        [] ph = "back" ->
             IF ~pr[s[x]]
             THEN IF f = x - 1 THEN done(f)
                  ELSE [m |-> s, ph |-> "back", f |-> f, x |-> x - 1]
             ELSE [m |-> s, ph |-> "swap", f |-> f, x |-> x]
        [] ph = "swap" ->
             LET t == iter_swap(s, f, x)
             IN  IF c = "forward_list"
                 THEN IF x + 1 = last THEN [m |-> t, ph |-> "done", f |-> f + 1, x |-> f + 1]
                      ELSE [m |-> t, ph |-> "next", f |-> f + 1, x |-> x + 1]
                 ELSE IF f + 1 = x THEN [m |-> t, ph |-> "done", f |-> f + 1, x |-> f + 1]
                      ELSE [m |-> t, ph |-> "find", f |-> f + 1, x |-> x]

\* the call begins: an empty range is returned at once, otherwise the first
\* element is tested
partition_begin(c, pr, s, first, last) ==
  IF first = last THEN [m |-> s, ph |-> "done", f |-> first, x |-> first]
  ELSE partition_step(c, pr, s, "find", first, last, last)

\* one step of middle1 = std::partition(first, last, em < pivot)
FinePartition1(p) ==
  /\ Running(p)
  /\ Top(p).fn = "quicksort"
  /\ Top(p).pc = "partition1"
  /\ LET f  == Top(p)
         pr == LessThanPivot(ord, mem, f.pivot)
         r  == IF Ph(f) = "start" THEN partition_begin(cont, pr, mem, f.first, f.last)
               ELSE partition_step(cont, pr, mem, f.ph, f.cur, f.cur2, f.last)
     IN  /\ mem' = r.m
         /\ stack' = SetTop(p, IF r.ph = "done"
                               THEN [OutOfLibrary(f) EXCEPT !.pc = "partition2", !.middle1 = r.f]
                               ELSE InLibrary(f, r.ph, r.f, r.x, <<>>))
  /\ UNCHANGED st
  /\ Untouched

\* one step of middle2 = std::partition(middle1, last, !(pivot < em))
FinePartition2(p) ==
  /\ Running(p)
  /\ Top(p).fn = "quicksort"
  /\ Top(p).pc = "partition2"
  /\ LET f  == Top(p)
         pr == NotGreaterThanPivot(ord, mem, f.pivot)
         r  == IF Ph(f) = "start" THEN partition_begin(cont, pr, mem, f.middle1, f.last)
               ELSE partition_step(cont, pr, mem, f.ph, f.cur, f.cur2, f.last)
     IN  /\ mem' = r.m
         /\ stack' = SetTop(p, IF r.ph = "done"
                               THEN [OutOfLibrary(f) EXCEPT !.pc = "recurse1", !.middle2 = r.f]
                               ELSE InLibrary(f, r.ph, r.f, r.x, <<>>))
  /\ UNCHANGED st
  /\ Untouched

\* std::inplace_merge with its buffer: [first, middle) is copied to the
\* buffer, one element a step
FineMergeCopy(p) ==
  /\ Running(p)
  /\ Top(p).fn = "merge_sort"
  /\ Top(p).pc = "merge"
  /\ Ph(Top(p)) \in {"start", "copy"}
  /\ LET f == Top(p)
         a == IF Ph(f) = "start" THEN <<>> ELSE f.buf
         b == Append(a, mem[f.first + Len(a)])
     IN  stack' = SetTop(p, IF Len(b) = f.middle - f.first
                            THEN InLibrary(f, "cmp", f.first, f.middle, b)
                            ELSE InLibrary(f, "copy", f.first, f.middle, b))
  /\ UNCHANGED <<mem, st>>
  /\ Untouched

\* one comparison of the merge: the head of the second half against the head
\* of the buffer; the second is taken only when it is less
FineMergeCompare(p) ==
  /\ Running(p)
  /\ Top(p).fn = "merge_sort"
  /\ Top(p).pc = "merge"
  /\ Ph(Top(p)) = "cmp"
  /\ LET f == Top(p)
     IN  stack' = SetTop(p, [f EXCEPT !.ph = IF less(ord, mem[f.cur2], Head(f.buf))
                                              THEN "take2" ELSE "take1"])
  /\ UNCHANGED <<mem, st>>
  /\ Untouched

\* one element moved to the result cursor cur: the head of the second half
\* (take2) or the head of the buffer (take1, and rest once the second half is
\* used up)
FineMergeMove(p) ==
  /\ Running(p)
  /\ Top(p).fn = "merge_sort"
  /\ Top(p).pc = "merge"
  /\ Ph(Top(p)) \in {"take1", "take2", "rest"}
  /\ LET f  == Top(p)
         e  == IF f.ph = "take2" THEN mem[f.cur2] ELSE Head(f.buf)
         b  == IF f.ph = "take2" THEN f.buf ELSE Tail(f.buf)
         c2 == IF f.ph = "take2" THEN f.cur2 + 1 ELSE f.cur2
     IN  /\ mem' = [mem EXCEPT ![f.cur] = e]
         /\ stack' = SetTop(p, IF b = <<>>
                               THEN [OutOfLibrary(f) EXCEPT !.pc = "return"]
                               ELSE InLibrary(f, IF c2 = f.last THEN "rest" ELSE "cmp",
                                              f.cur + 1, c2, b))
  /\ UNCHANGED st
  /\ Untouched

-----------------------------------------------------------------------------
(* Specifications. *)

\* ---------------------------------------------------------------------
\* The std::move block: three threads running f_sleep are started in a
\* vector, moved to a list and joined through the list.

\* f_sleep(1), f_sleep(2), f_sleep(3)
Threads == 1..3

\* a std::thread object that owns no thread (default-constructed, moved
\* from or joined): joinable() is false
NoThread == 0

joinable(t) == t # NoThread

\* ~thread(): destroying an object that is joinable calls std::terminate
destroy(objs) == \E j \in DOMAIN objs : joinable(objs[j])

\* the block has ended (the sorts are called later in the program)
BlockDone ==
  /\ blk = "done"
  /\ pos = 0
  /\ vt = <<>>
  /\ lt = <<>>
  /\ thread = [n \in Threads |-> "ended"]
  /\ joins = [n \in Threads |-> 1]
  /\ terminated = FALSE

SortsIdle == UNCHANGED <<mem, ord, cont, stack, st, todo, range, orig, alg, comparator>>

\* vt.emplace_back(f_sleep, n): the vector grows (its objects are moved to a
\* new buffer and the moved-from ones destroyed), the new object owns a
\* started thread
EmplaceBack(n) ==
  /\ blk = "emplace_back"
  /\ Len(vt) = n - 1
  /\ ~terminated
  /\ LET moved_from == [j \in DOMAIN vt |-> NoThread]
     IN  terminated' = destroy(moved_from)
  /\ vt' = Append(vt, n)
  /\ thread' = [thread EXCEPT ![n] = "sleeping"]
  /\ blk' = IF n = 3 THEN "list" ELSE "emplace_back"
  /\ UNCHANGED <<pos, lt, joins>>
  /\ SortsIdle

\* std::list<std::thread> lt;
ListConstruct ==
  /\ blk = "list"
  /\ ~terminated
  /\ lt' = <<>>
  /\ pos' = 1
  /\ blk' = "move"
  /\ UNCHANGED <<vt, thread, joins, terminated>>
  /\ SortsIdle

\* (mutant) the objects copied: the source keeps its thread
MoveStep_Copy ==
  /\ blk = "move"
  /\ ~terminated
  /\ IF pos > Len(vt)
     THEN /\ blk' = "join"
          /\ pos' = 1
          /\ UNCHANGED <<vt, lt>>
     ELSE /\ lt' = Append(lt, vt[pos])
          /\ pos' = pos + 1
          /\ UNCHANGED <<vt, blk>>
  /\ UNCHANGED <<thread, joins, terminated>>
  /\ SortsIdle

\* std::move(vt.begin(), vt.end(), std::back_inserter(lt)): one
\* *out++ = std::move(*first++) a step, lt.push_back(std::move(vt[pos]))
\* move-constructs the new object and leaves vt[pos] owning no thread
MoveStep ==
  /\ blk = "move"
  /\ ~terminated
  /\ IF pos > Len(vt)
     THEN /\ blk' = "join"
          /\ pos' = 1
          /\ UNCHANGED <<vt, lt>>
     ELSE /\ lt' = Append(lt, vt[pos])
          /\ vt' = [vt EXCEPT ![pos] = NoThread]
          /\ pos' = pos + 1
          /\ UNCHANGED blk
  /\ UNCHANGED <<thread, joins, terminated>>
  /\ SortsIdle

\* for (auto & t_ : lt) t_.join();  join() blocks until the thread has
\* ended and leaves the object owning no thread; on an object that is not
\* joinable pos throws std::system_error, which nothing catches
JoinStep ==
  /\ blk = "join"
  /\ ~terminated
  /\ IF pos > Len(lt)
     THEN /\ blk' = "end"
          /\ UNCHANGED <<pos, lt, joins, terminated>>
     ELSE IF ~joinable(lt[pos])
          THEN /\ terminated' = TRUE
               /\ UNCHANGED <<blk, pos, lt, joins>>
          ELSE /\ thread[lt[pos]] = "ended"
               /\ joins' = [joins EXCEPT ![lt[pos]] = @ + 1]
               /\ lt' = [lt EXCEPT ![pos] = NoThread]
               /\ pos' = pos + 1
               /\ UNCHANGED <<blk, terminated>>
  /\ UNCHANGED <<vt, thread>>
  /\ SortsIdle

\* the closing brace: lt, then vt, are destroyed with their objects
BlockEnd ==
  /\ blk = "end"
  /\ ~terminated
  /\ terminated' = (destroy(lt) \/ destroy(vt))
  /\ lt' = <<>>
  /\ vt' = <<>>
  /\ pos' = 0
  /\ blk' = "done"
  /\ UNCHANGED <<thread, joins>>
  /\ SortsIdle

\* f_sleep: std::this_thread::sleep_for(std::chrono::seconds(n)) returns
SleepReturns(n) ==
  /\ thread[n] = "sleeping"
  /\ ~terminated
  /\ thread' = [thread EXCEPT ![n] = "printing"]
  /\ UNCHANGED <<blk, pos, vt, lt, joins, terminated>>
  /\ SortsIdle

\* f_sleep: std::cout << "thread " << n << " ended" << '\n'; and the return
ThreadEnds(n) ==
  /\ thread[n] = "printing"
  /\ ~terminated
  /\ thread' = [thread EXCEPT ![n] = "ended"]
  /\ UNCHANGED <<blk, pos, vt, lt, joins, terminated>>
  /\ SortsIdle


\* the containers: every sequence of at most MaxLen keys, each element tagged
\* with its position
RECURSIVE SeqsUpTo(_)
SeqsUpTo(n) ==
  IF n = 0 THEN {<<>>}
  ELSE LET shorter == SeqsUpTo(n - 1)
       IN  shorter \cup {Append(s, k) : s \in {x \in shorter : Len(x) = n - 1}, k \in Keys}

Tagged(ks) == [j \in DOMAIN ks |-> Elem(ks[j], j)]

\* the containers the demonstrations of the source sort: the forward_list
\* given to quicksort and the vector given to merge_sort
SourceInputs ==
  { <<1, 30, -4, 3, 5, -4, 1, 6, -8, 2, -5, 64, 1, 92>>,
    <<8, 2, -2, 0, 11, 11, 1, 7, 3>> }

\* the inputs of the documented scenarios
ScenarioInputs ==
  { <<5, 7, 4, 2, 8, 6, 1, 9, 0, 3>>,
    <<7, 7, 7, 7, 7>>,
    <<5, 3, 1, 4, 2>> }

Inputs == {Tagged(ks) : ks \in SeqsUpTo(MaxLen) \cup SourceInputs \cup ScenarioInputs}

Comparators == {"default", "descending"}

Whole(s) == <<1, Len(s) + 1>>

InitWith(inputs, orders, comparators) ==
  /\ mem \in inputs
  /\ ord \in orders
  /\ cont \in Containers
  /\ stack = [p \in Procs |-> <<>>]
  /\ st = [p \in Procs |-> "idle"]
  /\ todo = [p \in Procs |-> IF p = 1 THEN 1 ELSE 0]
  /\ range = [p \in Procs |-> IF p = 1 THEN Whole(mem) ELSE <<1, 1>>]
  /\ orig = [p \in Procs |-> mem]
  /\ alg = [p \in Procs |-> "none"]
  /\ comparator \in [Procs -> comparators]
  /\ comparator[2] = "default"
  /\ BlockDone

Init == InitWith(Inputs, Orders, {"default"})

\* the documented scenarios, the caller wanting either order
InitInject == InitWith({Tagged(ks) : ks \in ScenarioInputs}, Orders, Comparators)

Step(p) ==
  \/ SelectionIter(p)
  \/ SelectionReturn(p)
  \/ QuickEntry(p)
  \/ QuickPivot(p)
  \/ QuickPartition1(p)
  \/ QuickPartition2(p)
  \/ QuickRecurse1(p)
  \/ QuickRecurse2(p)
  \/ QuickReturn(p)
  \/ MergeEntry(p)
  \/ MergeRecurse1(p)
  \/ MergeRecurse2(p)
  \/ MergeMerge(p)
  \/ MergeReturn(p)

Next ==
  \/ \E p \in Procs, fn \in Sorts : Call(p, fn)
  \/ \E p \in Procs : Step(p)

Spec == Init /\ [][Next]_vars

\* The specifications of the termination properties start from the bounded
\* containers and the two short scenarios, under the strict weak orders
\* (FairSpec) or under the other relations (FairSpecInvalid).
ShortInputs ==
  {Tagged(ks) : ks \in SeqsUpTo(MaxLen) \cup {<<7, 7, 7, 7, 7>>, <<5, 3, 1, 4, 2>>}}

\* A call that has begun keeps executing: each thread's steps are weakly fair.
Fairness == \A p \in Procs : WF_vars(Step(p))

FairSpec ==
  /\ InitWith(ShortInputs, StrictWeak, {"default"})
  /\ [][Next]_vars
  /\ Fairness

FairSpecInvalid ==
  /\ InitWith(ShortInputs, Orders \ StrictWeak, {"default"})
  /\ [][Next]_vars
  /\ Fairness

SpecInject == InitInject /\ [][Next]_vars

\* every range <<first, last>> of the container s
SubRanges(s) == {<<f, l>> : f \in 1..(Len(s) + 1), l \in 1..(Len(s) + 1)} \ {r \in (1..(Len(s) + 1)) \X (1..(Len(s) + 1)) : r[1] > r[2]}

BoundedInputs == {Tagged(ks) : ks \in SeqsUpTo(MaxLen)}

\* the caller sorts any sub-range of the container
InitSub ==
  /\ mem \in BoundedInputs
  /\ ord = "lt"
  /\ cont \in Containers
  /\ stack = [p \in Procs |-> <<>>]
  /\ st = [p \in Procs |-> "idle"]
  /\ todo = [p \in Procs |-> IF p = 1 THEN 1 ELSE 0]
  /\ \E r \in SubRanges(mem) : range = [p \in Procs |-> IF p = 1 THEN r ELSE <<1, 1>>]
  /\ orig = [p \in Procs |-> mem]
  /\ alg = [p \in Procs |-> "none"]
  /\ comparator = [p \in Procs |-> "default"]
  /\ BlockDone

SpecSub == InitSub /\ [][Next]_vars

\* the caller sorts the container twice, with any of the sorts each time
InitTwice ==
  /\ mem \in BoundedInputs
  /\ ord \in StrictWeak
  /\ cont \in Containers
  /\ stack = [p \in Procs |-> <<>>]
  /\ st = [p \in Procs |-> "idle"]
  /\ todo = [p \in Procs |-> IF p = 1 THEN 2 ELSE 0]
  /\ range = [p \in Procs |-> IF p = 1 THEN Whole(mem) ELSE <<1, 1>>]
  /\ orig = [p \in Procs |-> mem]
  /\ alg = [p \in Procs |-> "none"]
  /\ comparator = [p \in Procs |-> "default"]
  /\ BlockDone

SpecTwice == InitTwice /\ [][Next]_vars

\* between two calls the caller chooses the range of the next one
Rerange(p, r) ==
  /\ stack[p] = <<>>
  /\ st[p] = "returned"
  /\ todo[p] > 0
  /\ range' = [range EXCEPT ![p] = r]
  /\ st' = [st EXCEPT ![p] = "idle"]
  /\ UNCHANGED <<mem, ord, cont, stack, todo, orig, alg, comparator, move_block>>

\* the caller makes two calls, each of any of the sorts on any range of the
\* container
HistoryInputs == {Tagged(ks) : ks \in SeqsUpTo(MaxLen - 1)}

InitHistory ==
  /\ mem \in HistoryInputs
  /\ ord = "lt"
  /\ cont \in Containers
  /\ stack = [p \in Procs |-> <<>>]
  /\ st = [p \in Procs |-> "idle"]
  /\ todo = [p \in Procs |-> IF p = 1 THEN 2 ELSE 0]
  /\ \E r \in SubRanges(mem) : range = [p \in Procs |-> IF p = 1 THEN r ELSE <<1, 1>>]
  /\ orig = [p \in Procs |-> mem]
  /\ alg = [p \in Procs |-> "none"]
  /\ comparator = [p \in Procs |-> "default"]
  /\ BlockDone

NextHistory ==
  \/ \E p \in Procs, fn \in Sorts : Call(p, fn)
  \/ \E p \in Procs : Step(p)
  \/ \E p \in Procs : \E r \in SubRanges(mem) : Rerange(p, r)

SpecHistory == InitHistory /\ [][NextHistory]_vars

\* two threads, each making one call on its own range of the container:
\* thread 1 on [1, a) and thread 2 on [b, end), the two ranges adjacent
\* (b = a) or one element apart (b = a + 1)
ConcInputs ==
  {Tagged(ks) : ks \in {x \in SeqsUpTo(MaxLen) : Len(x) = MaxLen /\ \A j \in DOMAIN x : x[j] < MaxKey}}

InitConc ==
  /\ mem \in ConcInputs
  /\ ord = "lt"
  /\ cont \in Containers
  /\ stack = [p \in Procs |-> <<>>]
  /\ st = [p \in Procs |-> "idle"]
  /\ todo = [p \in Procs |-> 1]
  /\ \E a \in 1..(Len(mem) + 1) : \E b \in {a, a + 1} \cap (1..(Len(mem) + 1)) :
       range = [p \in Procs |-> IF p = 1 THEN <<1, a>> ELSE <<b, Len(mem) + 1>>]
  /\ orig = [p \in Procs |-> mem]
  /\ alg = [p \in Procs |-> "none"]
  /\ comparator = [p \in Procs |-> "default"]
  /\ BlockDone

FineStep(p) ==
  \/ FineSelectionBegin(p)
  \/ FineSelectionCompare(p)
  \/ FineSelectionSwap(p)
  \/ SelectionReturn(p)
  \/ QuickEntry(p)
  \/ QuickPivot(p)
  \/ FinePartition1(p)
  \/ FinePartition2(p)
  \/ QuickRecurse1(p)
  \/ QuickRecurse2(p)
  \/ QuickReturn(p)
  \/ MergeEntry(p)
  \/ MergeRecurse1(p)
  \/ MergeRecurse2(p)
  \/ FineMergeCopy(p)
  \/ FineMergeCompare(p)
  \/ FineMergeMove(p)
  \/ MergeReturn(p)

NextConc ==
  \/ \E p \in Procs, fn \in Sorts : Call(p, fn)
  \/ \E p \in Procs : FineStep(p)

\* each thread that has begun a call keeps executing it
SpecConc ==
  /\ InitConc
  /\ [][NextConc]_vars
  /\ \A p \in Procs : WF_vars(FineStep(p))

\* one call at a time, executed by the library's single steps, on the
\* bounded containers under every ordering relation
InitFine == InitWith(BoundedInputs, Orders, {"default"})

SpecFine == InitFine /\ [][NextConc]_vars

\* the std::move block from its opening brace; the containers of the sorts
\* are constructed later in the program
InitMove ==
  /\ mem = <<>>
  /\ ord = "lt"
  /\ cont = "vector"
  /\ stack = [p \in Procs |-> <<>>]
  /\ st = [p \in Procs |-> "idle"]
  /\ todo = [p \in Procs |-> 0]
  /\ range = [p \in Procs |-> <<1, 1>>]
  /\ orig = [p \in Procs |-> mem]
  /\ alg = [p \in Procs |-> "none"]
  /\ comparator = [p \in Procs |-> "default"]
  /\ blk = "emplace_back"
  /\ pos = 0
  /\ vt = <<>>
  /\ lt = <<>>
  /\ thread = [n \in Threads |-> "unstarted"]
  /\ joins = [n \in Threads |-> 0]
  /\ terminated = FALSE

MainStep ==
  \/ \E n \in Threads : EmplaceBack(n)
  \/ ListConstruct
  \/ MoveStep
  \/ JoinStep
  \/ BlockEnd

ThreadStep(n) ==
  \/ SleepReturns(n)
  \/ ThreadEnds(n)

NextMove ==
  \/ MainStep
  \/ \E n \in Threads : ThreadStep(n)

\* the main thread and every started thread keep running
SpecMove ==
  /\ InitMove
  /\ [][NextMove]_vars
  /\ WF_vars(MainStep)
  /\ \A n \in Threads : WF_vars(ThreadStep(n))

-----------------------------------------------------------------------------
(* The sorts as functions: the container a call of fn(first, last) leaves,   *)
(* computed from the container it is given by the statements of the source  *)
(* in their order, a recursive call being the function applied to its range. *)

RECURSIVE selection_sort_loop(_, _, _, _)
selection_sort_loop(o, s, i, end) ==
  IF i = end THEN s
  ELSE selection_sort_loop(o, iter_swap(s, i, min_element(o, s, i, end)), i + 1, end)

selection_sort_result(o, s, begin, end) == selection_sort_loop(o, s, begin, end)

RECURSIVE quicksort_result(_, _, _, _, _)
quicksort_result(o, c, s, first, last) ==
  IF first = last THEN s
  ELSE LET pivot == s[first + (last - first) \div 2]
           r1    == partition(c, LessThanPivot(o, s, pivot), s, first, last)
           r2    == partition(c, NotGreaterThanPivot(o, r1.m, pivot), r1.m, r1.it, last)
       IN  quicksort_result(o, c, quicksort_result(o, c, r2.m, first, r1.it), r2.it, last)

RECURSIVE merge_sort_result(_, _, _, _)
merge_sort_result(o, s, first, last) ==
  IF last - first > 1
  THEN LET middle == first + (last - first) \div 2
       IN  inplace_merge(o, merge_sort_result(o, merge_sort_result(o, s, first, middle), middle, last),
                         first, middle, last)
  ELSE s

-----------------------------------------------------------------------------
(* Vocabulary of the properties. *)

Returned(p, fn) == st[p] = "returned" /\ alg[p] = fn

\* the elements of s at the positions of thread p's range
InRange(p, s) == SubSeq(s, range[p][1], range[p][2] - 1)

KeysOf(s) == [j \in DOMAIN s |-> s[j].k]

\* no adjacent pair has the later element less than the earlier one
NonDescending(o, s) == \A j \in 1..(Len(s) - 1) : ~less(o, s[j + 1], s[j])

Count(s, e) == Cardinality({j \in DOMAIN s : s[j] = e})

SameMultiset(a, b) ==
  /\ Len(a) = Len(b)
  /\ ElemsOf(a) = ElemsOf(b)
  /\ \A e \in ElemsOf(a) : Count(a, e) = Count(b, e)

HasDuplicateKeys(s) == \E i, j \in DOMAIN s : i < j /\ s[i].k = s[j].k

PosIn(s, e) == CHOOSE j \in DOMAIN s : s[j] = e

\* b keeps the elements of equal key in the order they have in a
Stable(a, b) ==
  \A i, j \in DOMAIN b :
    (i < j /\ b[i].k = b[j].k) => PosIn(a, b[i]) < PosIn(a, b[j])

-----------------------------------------------------------------------------
(* Properties. *)

\* C1: when quicksort(first, last) returns on elements with a total order
\* (duplicates included), no element of the range is less than the one
\* before it.
C1_QuicksortSorts ==
  \A p \in Procs :
    (Returned(p, "quicksort") /\ ord \in StrictWeak) => NonDescending(ord, InRange(p, mem))

C1_Witness ==
  \E p \in Procs :
    /\ Returned(p, "quicksort")
    /\ ord = "lt"
    /\ Len(InRange(p, mem)) >= 4
    /\ HasDuplicateKeys(InRange(p, mem))
    /\ ~NonDescending(ord, InRange(p, orig[p]))

\* C2: when merge_sort(first, last) returns on elements with a total order,
\* the range is in non-descending order.
C2_MergeSortSorts ==
  \A p \in Procs :
    (Returned(p, "merge_sort") /\ ord \in StrictWeak) => NonDescending(ord, InRange(p, mem))

C2_Witness ==
  \E p \in Procs :
    /\ Returned(p, "merge_sort")
    /\ ord = "lt"
    /\ KeysOf(orig[p]) = <<5, 7, 4, 2, 8, 6, 1, 9, 0, 3>>
    /\ KeysOf(mem) = <<0, 1, 2, 3, 4, 5, 6, 7, 8, 9>>

\* C3: when selection_sort(begin, end) returns on elements with a total
\* order, the range is in non-descending order.
C3_SelectionSortSorts ==
  \A p \in Procs :
    (Returned(p, "selection_sort") /\ ord \in StrictWeak) => NonDescending(ord, InRange(p, mem))

C3_Witness ==
  \E p \in Procs :
    /\ Returned(p, "selection_sort")
    /\ ord = "lt"
    /\ Len(InRange(p, mem)) >= 4
    /\ ~NonDescending(ord, InRange(p, orig[p]))
    /\ mem # orig[p]

\* C4: when any of the three sorts returns, the range holds the same
\* elements as when the call began, each as many times, and has the same
\* length.
C4_SameMultiset ==
  \A p \in Procs :
    (st[p] = "returned" /\ ord \in StrictWeak) =>
      /\ Len(mem) = Len(orig[p])
      /\ SameMultiset(InRange(p, orig[p]), InRange(p, mem))
      /\ SameMultiset(KeysOf(InRange(p, orig[p])), KeysOf(InRange(p, mem)))

C4_Witness ==
  \E p \in Procs :
    /\ st[p] = "returned"
    /\ ord \in StrictWeak
    /\ HasDuplicateKeys(InRange(p, mem))
    /\ Len(mem) >= 4
    /\ mem # orig[p]


AllEqualKeys(s) == \A i, j \in DOMAIN s : s[i].k = s[j].k

\* every iterator a frame holds lies in the frame's range, and the range in
\* the range of its caller
InBounds(p) ==
  \A d \in DOMAIN stack[p] :
    LET f == stack[p][d]
    IN  /\ range[p][1] <= f.first /\ f.first <= f.last /\ f.last <= range[p][2]
        /\ f.last <= Len(mem) + 1
        /\ f.first <= f.i /\ f.i <= f.last
        /\ f.first <= f.middle1 /\ f.middle1 <= f.last
        /\ f.first <= f.middle2 /\ f.middle2 <= f.last
        /\ (f.fn = "quicksort" /\ f.pc \in {"recurse1", "recurse2", "return"}) =>
             f.middle1 <= f.middle2
        /\ f.first <= f.middle /\ f.middle <= f.last
        /\ d > 1 => /\ stack[p][d - 1].first <= f.first
                    /\ f.last <= stack[p][d - 1].last

\* operator< holds of no element of the container and itself
Irreflexive(o) == \A e \in ElemsOf(mem) : ~less(o, e, e)

\* C5: quicksort on a range whose elements are all equal never nests more
\* than two calls, never overflows the stack, never moves an element, and
\* returns.
C5_QuicksortAllEqual ==
  /\ [](\A p \in Procs :
          (alg[p] = "quicksort" /\ ord \in StrictWeak /\ AllEqualKeys(InRange(p, orig[p]))) =>
            /\ st[p] # "overflow"
            /\ Len(stack[p]) <= 2
            /\ mem = orig[p])
  /\ \A p \in Procs :
       (st[p] = "running" /\ alg[p] = "quicksort" /\ ord \in StrictWeak
          /\ AllEqualKeys(InRange(p, orig[p])))
         ~> (st[p] = "returned")

C5_Witness ==
  \E p \in Procs :
    /\ Returned(p, "quicksort")
    /\ ord = "lt"
    /\ KeysOf(orig[p]) = <<7, 7, 7, 7, 7>>
    /\ mem = orig[p]

\* C6: under a strict weak order every call of the three sorts that has
\* begun returns, and none overflows the stack.
C6_EveryCallReturns ==
  /\ [](\A p \in Procs : ord \in StrictWeak => st[p] # "overflow")
  /\ \A p \in Procs : (st[p] = "running" /\ ord \in StrictWeak) ~> (st[p] = "returned")

C6_Witness ==
  \E p \in Procs :
    /\ Returned(p, "quicksort")
    /\ ord \in StrictWeak
    /\ KeysOf(orig[p]) = <<5, 3, 1, 4, 2>>
    /\ mem # orig[p]

\* C7 (as claimed): when operator< is no strict weak order, none of the
\* three sorts overflows the stack or leaves its range.
C7_Original ==
  \A p \in Procs : ord \notin StrictWeak => (st[p] # "overflow" /\ InBounds(p))

\* C7 (amended): when operator< is no strict weak order, selection_sort and
\* merge_sort never overflow the stack, stay in their range and return; so
\* does quicksort provided operator< is irreflexive.
C7_InvalidOrderTerminates ==
  /\ [](\A p \in Procs :
          (ord \notin StrictWeak /\ (alg[p] = "quicksort" => Irreflexive(ord))) =>
            (st[p] # "overflow" /\ InBounds(p)))
  /\ \A p \in Procs :
       (st[p] = "running" /\ ord \notin StrictWeak
          /\ (alg[p] = "quicksort" => Irreflexive(ord)))
         ~> (st[p] = "returned")

C7_Witness ==
  \E p \in Procs :
    /\ Returned(p, "quicksort")
    /\ ord = "cyc"
    /\ Len(mem) >= 3
    /\ \E i, j, k \in DOMAIN mem :
         less(ord, mem[i], mem[j]) /\ less(ord, mem[j], mem[k]) /\ ~less(ord, mem[i], mem[k])
    /\ mem # orig[p]

\* C8: when merge_sort returns, elements of equal key are in the order they
\* had when the call began.
C8_MergeSortStable ==
  \A p \in Procs :
    (Returned(p, "merge_sort") /\ ord \in StrictWeak) =>
      Stable(InRange(p, orig[p]), InRange(p, mem))

C8_Witness ==
  \E p \in Procs :
    /\ Returned(p, "merge_sort")
    /\ ord = "lt"
    /\ KeysOf(orig[p]) = <<2, 1, 2, 1>>
    /\ KeysOf(mem) = <<1, 1, 2, 2>>

\* C9: selection_sort and quicksort are not stable: on the keys 2, 2, 1 each
\* of them returns with the two elements of key 2 in the other order.
C9_NotStable ==
  \A p \in Procs :
    (st[p] = "returned" /\ alg[p] \in {"selection_sort", "quicksort"}
       /\ ord = "lt" /\ KeysOf(orig[p]) = <<2, 2, 1>>) =>
      ~Stable(InRange(p, orig[p]), InRange(p, mem))

C9_Witness ==
  \E p \in Procs :
    /\ Returned(p, "quicksort")
    /\ ord = "lt"
    /\ KeysOf(orig[p]) = <<2, 2, 1>>
    /\ ~Stable(InRange(p, orig[p]), InRange(p, mem))

WritesInsideFrame ==
  \A j \in DOMAIN mem :
    mem'[j] # mem[j] =>
      \E p \in Procs : Running(p) /\ Top(p).first <= j /\ j < Top(p).last

\* C11: during and after a sort call on [first, last), every element at a
\* position before first or at or after last is the one that was there when
\* the call began, the nested calls stay in the range, and each step writes
\* only inside the range of the call that runs.
C11_OnlyInsideRange ==
  /\ [](\A p \in Procs :
          st[p] \in {"running", "returned"} =>
            /\ Len(mem) = Len(orig[p])
            /\ InBounds(p)
            /\ \A j \in DOMAIN mem :
                 (j < range[p][1] \/ j >= range[p][2]) => mem[j] = orig[p][j])
  /\ [][WritesInsideFrame]_vars

C11_Witness ==
  \E p \in Procs :
    /\ st[p] = "returned"
    /\ range[p][1] > 1
    /\ range[p][2] <= Len(mem)
    /\ range[p][2] - range[p][1] >= 2
    /\ mem # orig[p]
    /\ less(ord, mem[range[p][2]], mem[range[p][2] - 1])
    /\ less(ord, mem[range[p][1]], mem[range[p][1] - 1])


\* C12: when one of the three sorts returns under a total order, the keys
\* it leaves are, position by position, the keys each of the three sorts
\* leaves when applied to a copy of the container the call was given
\* (quicksort on either kind of container).
C12_SameValuesAcrossSorts ==
  \A p \in Procs :
    (st[p] = "returned" /\ ord \in StrictWeak) =>
      LET a == range[p][1]
          b == range[p][2]
      IN  /\ KeysOf(mem) = KeysOf(selection_sort_result(ord, orig[p], a, b))
          /\ KeysOf(mem) = KeysOf(quicksort_result(ord, "forward_list", orig[p], a, b))
          /\ KeysOf(mem) = KeysOf(quicksort_result(ord, "vector", orig[p], a, b))
          /\ KeysOf(mem) = KeysOf(merge_sort_result(ord, orig[p], a, b))

C12_Witness ==
  \E p \in Procs :
    /\ Returned(p, "quicksort")
    /\ ord = "lt"
    /\ KeysOf(orig[p]) = <<1, 30, -4, 3, 5, -4, 1, 6, -8, 2, -5, 64, 1, 92>>
    /\ KeysOf(mem) = <<-8, -5, -4, -4, 1, 1, 1, 2, 3, 5, 6, 30, 64, 92>>
    /\ mem # merge_sort_result(ord, orig[p], range[p][1], range[p][2])


\* C13: when a sort returns from its second application to a range (the
\* caller of SpecTwice calls twice), the keys are, position by position,
\* the keys the first application left.
C13_Idempotent ==
  \A p \in Procs :
    (st[p] = "returned" /\ todo[p] = 0 /\ ord \in StrictWeak) =>
      /\ NonDescending(ord, InRange(p, orig[p]))
      /\ KeysOf(mem) = KeysOf(orig[p])

C13_Witness ==
  \E p \in Procs :
    /\ st[p] = "returned"
    /\ todo[p] = 0
    /\ Len(mem) >= 4
    /\ HasDuplicateKeys(mem)
    /\ \E j \in DOMAIN mem : orig[p][j].t # j


\* C14: a call of any of the three sorts on an empty range or on a range of
\* one element never changes the container, never overflows the stack, and
\* returns.
C14_EmptyAndSingleton ==
  /\ [](\A p \in Procs :
          (alg[p] # "none" /\ ord \in StrictWeak /\ range[p][2] - range[p][1] <= 1) =>
            (st[p] # "overflow" /\ mem = orig[p] /\ InBounds(p)))
  /\ \A p \in Procs :
       (st[p] = "running" /\ ord \in StrictWeak /\ range[p][2] - range[p][1] <= 1)
         ~> (st[p] = "returned" /\ mem = orig[p])

C14_Witness ==
  \E p \in Procs :
    /\ Returned(p, "quicksort")
    /\ range[p][2] - range[p][1] = 1
    /\ Len(mem) = 1
    /\ mem = orig[p]

\* the quicksort frame on top of thread p's stack, at one of the positions pcs
QuickAt(p, pcs) == Running(p) /\ Top(p).fn = "quicksort" /\ Top(p).pc \in pcs

\* neither is less than the other
Equivalent(o, a, b) == ~less(o, a, b) /\ ~less(o, b, a)

\* C18: under a strict weak order, when the second partition of a quicksort
\* call has returned middle2, [middle1, middle2) is non-empty and holds
\* exactly the elements of [first, last) equivalent to the pivot, every
\* element of [first, middle1) is less than the pivot and the pivot is less
\* than every element of [middle2, last).
C18_ThreeBlocks ==
  \A p \in Procs :
    (QuickAt(p, {"recurse1"}) /\ ord \in StrictWeak) =>
      LET f == Top(p)
      IN  /\ f.first <= f.middle1 /\ f.middle1 < f.middle2 /\ f.middle2 <= f.last
          /\ \A j \in f.first..(f.last - 1) :
               Equivalent(ord, mem[j], f.pivot) <=> (f.middle1 <= j /\ j < f.middle2)
          /\ \A j \in f.first..(f.middle1 - 1) : less(ord, mem[j], f.pivot)
          /\ \A j \in f.middle2..(f.last - 1) : less(ord, f.pivot, mem[j])

C18_Witness ==
  \E p \in Procs :
    /\ QuickAt(p, {"recurse1"})
    /\ ord = "lt"
    /\ Top(p).first < Top(p).middle1
    /\ Top(p).middle2 - Top(p).middle1 >= 2
    /\ Top(p).middle2 < Top(p).last
    /\ mem # orig[p]


\* C19: when the first partition of a quicksort call has returned middle1,
\* whatever operator< is, every element of [first, middle1) is less than the
\* pivot and no element of [middle1, last) is.
C19_FirstPartition ==
  \A p \in Procs :
    QuickAt(p, {"partition2"}) =>
      LET f == Top(p)
      IN  /\ f.first <= f.middle1 /\ f.middle1 <= f.last
          /\ \A j \in f.first..(f.middle1 - 1) : less(ord, mem[j], f.pivot)
          /\ \A j \in f.middle1..(f.last - 1) : ~less(ord, mem[j], f.pivot)

C19_Witness ==
  \E p \in Procs :
    /\ QuickAt(p, {"partition2"})
    /\ Top(p).first < Top(p).middle1
    /\ Top(p).last - Top(p).middle1 >= 2
    /\ Len(stack[p]) >= 2
    /\ mem # orig[p]


\* C20: in every quicksort call on a non-empty range of n elements, under an
\* irreflexive operator< (every strict weak order is one), the callee of the
\* first recursive call has the range [first, middle1), the callee of the
\* second the range [middle2, last), each is shorter than n, and the two
\* ranges hold at most n - 1 elements together.
C20_RecursionShrinks ==
  \A p \in Procs :
    Irreflexive(ord) =>
      \A d \in DOMAIN stack[p] :
        LET f == stack[p][d]
            n == f.last - f.first
        IN  (f.fn = "quicksort" /\ f.pc \in {"recurse1", "recurse2", "return"}) =>
              /\ n >= 1
              /\ f.middle1 - f.first < n
              /\ f.last - f.middle2 < n
              /\ (f.middle1 - f.first) + (f.last - f.middle2) <= n - 1
              /\ (d < Len(stack[p]) /\ f.pc = "recurse2") =>
                   /\ stack[p][d + 1].first = f.first
                   /\ stack[p][d + 1].last = f.middle1
              /\ (d < Len(stack[p]) /\ f.pc = "return") =>
                   /\ stack[p][d + 1].first = f.middle2
                   /\ stack[p][d + 1].last = f.last

C20_Witness ==
  \E p \in Procs :
    /\ Len(stack[p]) >= 2
    /\ LET f == stack[p][1]
           g == stack[p][2]
       IN  /\ f.fn = "quicksort" /\ f.pc = "return"
           /\ f.last - f.first >= 4
           /\ f.middle1 - f.first >= 1
           /\ f.middle2 - f.middle1 >= 2
           /\ g.first = f.middle2 /\ g.last = f.last
           /\ g.last - g.first >= 1

\* the container a call of fn(first, last) leaves
sort_result(fn, o, c, s, first, last) ==
  CASE fn = "selection_sort" -> selection_sort_result(o, s, first, last)
    [] fn = "quicksort"      -> quicksort_result(o, c, s, first, last)
    [] fn = "merge_sort"     -> merge_sort_result(o, s, first, last)

\* C16: whatever calls were made before (the caller of SpecHistory makes two
\* calls, each of any sort on any range), the container a call leaves is a
\* function of the container it was given, its range, the sort called and
\* the template instantiation alone: two calls begun on identical contents
\* end in identical contents.
C16_NoStateAcrossCalls ==
  \A p \in Procs :
    (st[p] = "returned" /\ ord \in StrictWeak) =>
      mem = sort_result(alg[p], ord, cont, orig[p], range[p][1], range[p][2])

C16_Witness ==
  \E p \in Procs :
    /\ Returned(p, "quicksort")
    /\ todo[p] = 0
    /\ range[p][1] > 1
    /\ range[p][2] - range[p][1] >= 2
    /\ \E j \in DOMAIN mem : j < range[p][1] /\ orig[p][j].t # j
    /\ \E j \in DOMAIN mem : j >= range[p][1] /\ orig[p][j].t # j
    /\ mem # orig[p]


\* what a forward iterator offers: ==, !=, *it and ++it, and the exchange of
\* the elements of two iterators
ForwardOps == {"eq", "deref", "inc", "swap"}

\* The cursor operations of the statement the frame f executes next: own, the
\* ones written in the statement; lib, the ones of the library calls it makes.
StatementOps(f) ==
  CASE f.fn = "selection_sort" ->
         IF f.i # f.last
         THEN [own |-> {"eq", "inc"},
               lib |-> min_element_ops(f.i, f.last) \cup iter_swap_ops]
         ELSE [own |-> {"eq"}, lib |-> {}]
    [] f.fn = "quicksort" /\ f.pc = "entry" -> [own |-> {"eq"}, lib |-> {}]
    [] f.fn = "quicksort" /\ f.pc = "pivot" ->
         [own |-> {"deref"},
          lib |-> distance_ops(cont, f.first, f.last)
                    \cup next_ops(cont, (f.last - f.first) \div 2)]
    [] f.fn = "quicksort" /\ f.pc = "partition1" ->
         [own |-> {},
          lib |-> partition(cont, LessThanPivot(ord, mem, f.pivot), mem, f.first, f.last).ops]
    [] f.fn = "quicksort" /\ f.pc = "partition2" ->
         [own |-> {},
          lib |-> partition(cont, NotGreaterThanPivot(ord, mem, f.pivot), mem, f.middle1, f.last).ops]
    [] f.fn = "merge_sort" /\ f.pc = "entry" ->
         [own |-> {"sub"} \cup (IF f.last - f.first > 1 THEN {"add"} ELSE {}), lib |-> {}]
    [] f.fn = "merge_sort" /\ f.pc = "merge" -> [own |-> {}, lib |-> inplace_merge_ops]
    [] OTHER -> [own |-> {}, lib |-> {}]

C15_ConcurrentDisjoint ==
  /\ [](\A p \in Procs :
          /\ st[p] # "overflow"
          /\ alg[p] # "none" =>
               \A j \in DOMAIN mem :
                 (\A q \in Procs : j < range[q][1] \/ j >= range[q][2]) => mem[j] = orig[p][j]
          /\ st[p] = "returned" =>
               /\ NonDescending(ord, InRange(p, mem))
               /\ SameMultiset(InRange(p, orig[p]), InRange(p, mem))
               /\ InRange(p, mem)
                    = InRange(p, sort_result(alg[p], ord, cont, orig[p], range[p][1], range[p][2])))
  /\ \A p \in Procs : (st[p] = "running") ~> (st[p] = "returned")

C15_Witness ==
  /\ Returned(1, "merge_sort")
  /\ Returned(2, "quicksort")
  /\ range[1][2] - range[1][1] >= 2
  /\ range[2][2] - range[2][1] >= 2
  /\ InRange(1, orig[2]) # InRange(1, orig[1])
  /\ InRange(1, orig[2]) # InRange(1, mem)
  /\ InRange(2, mem) # InRange(2, orig[2])

\* the frames of thread p that are quicksort calls past their second
\* partition: the top one about to recurse or return, the others waiting for
\* a recursive call
PastPartitions(p) ==
  {d \in DOMAIN stack[p] :
     stack[p][d].fn = "quicksort" /\ stack[p][d].pc \in {"recurse1", "recurse2", "return"}}

\* no step writes a position of the block [middle1, middle2) of a quicksort
\* call that is past its second partition
EqualBlockUnwritten ==
  \A p \in Procs : \A d \in PastPartitions(p) :
    \A j \in stack[p][d].middle1..(stack[p][d].middle2 - 1) : mem'[j] = mem[j]

\* C21: from the second partition of a quicksort call until the call
\* returns, no step (of the two recursive calls or of any call nested in
\* them) writes a position of [middle1, middle2), whatever operator< is; and
\* under a strict weak order the elements at those positions are the ones
\* the outermost call leaves there, their keys the keys of the sorted range.
C21_EqualBlockFinal ==
  /\ [](\A p \in Procs : \A d \in PastPartitions(p) :
          ord \in StrictWeak =>
            LET f      == stack[p][d]
                final  == quicksort_result(ord, cont, orig[p], range[p][1], range[p][2])
                sorted == selection_sort_result(ord, orig[p], range[p][1], range[p][2])
            IN  \A j \in f.middle1..(f.middle2 - 1) :
                  /\ mem[j] = final[j]
                  /\ mem[j].k = sorted[j].k)
  /\ [][EqualBlockUnwritten]_vars

C21_Witness ==
  \E p \in Procs : \E d \in PastPartitions(p) :
    LET f == stack[p][d]
    IN  /\ ord = "lt"
        /\ f.pc = "return"
        /\ d < Len(stack[p])
        /\ Top(p).fn = "quicksort" /\ Top(p).pc = "recurse1"
        /\ f.middle1 - f.first >= 2
        /\ f.middle2 - f.middle1 >= 2
        /\ f.last - f.middle2 >= 2

\* the frames of thread p that are quicksort calls holding their pivot
HoldsPivot(p) ==
  {d \in DOMAIN stack[p] :
     stack[p][d].fn = "quicksort" /\ stack[p][d].pc \notin {"entry", "pivot"}}

\* a step leaves the pivot of every call that holds one as it is
PivotKept ==
  \A p \in Procs : \A d \in HoldsPivot(p) :
    d \in DOMAIN stack'[p] => stack'[p][d].pivot = stack[p][d].pivot

\* C22: a quicksort call that has read its pivot is on a range of n >= 1
\* elements; before the first partition the pivot is the element at first +
\* n / 2 (n / 2 rounded down), and for the outermost call it is for ever the
\* element that was there when the call began; no step changes it, although
\* the exchanges move the element; and the outcome of both partitions is the
\* outcome of their predicates on that value.
C22_PivotCopy ==
  /\ [](\A p \in Procs : \A d \in HoldsPivot(p) :
          LET f   == stack[p][d]
              mid == f.first + (f.last - f.first) \div 2
          IN  /\ f.last - f.first >= 1
              /\ f.pc = "partition1" => f.pivot = mem[mid]
              /\ d = 1 => f.pivot = orig[p][mid]
              /\ f.pc = "recurse1" =>
                   /\ \A j \in f.first..(f.middle1 - 1) : less(ord, mem[j], f.pivot)
                   /\ \A j \in f.middle1..(f.middle2 - 1) :
                        ~less(ord, mem[j], f.pivot) /\ ~less(ord, f.pivot, mem[j])
                   /\ \A j \in f.middle2..(f.last - 1) :
                        ~less(ord, mem[j], f.pivot) /\ less(ord, f.pivot, mem[j]))
  /\ [][PivotKept]_vars

C22_Witness ==
  \E p \in Procs :
    /\ QuickAt(p, {"recurse1"})
    /\ Len(stack[p]) = 1
    /\ ord = "lt"
    /\ LET f   == Top(p)
           mid == f.first + (f.last - f.first) \div 2
       IN  /\ f.last - f.first >= 4
           /\ f.pivot = orig[p][mid]
           /\ mem[mid].k # f.pivot.k
           /\ \E j \in f.middle1..(f.middle2 - 1) : mem[j] = f.pivot /\ j # mid

SelectionAt(p) == Running(p) /\ Top(p).fn = "selection_sort"

\* a step of a selection_sort call leaves the positions before i as they
\* are, and an iteration exchanges the element at i with a least element of
\* [i, end): the first position of [i, end) whose element no other is less
\* than
SelectionStep ==
  \A p \in Procs :
    (SelectionAt(p) /\ ord \in StrictWeak) =>
      LET f == Top(p)
      IN  /\ \A j \in f.first..(f.i - 1) : mem'[j] = mem[j]
          /\ (stack'[p] # <<>> /\ stack'[p][1].i = f.i + 1) =>
               \E m \in f.i..(f.last - 1) :
                 /\ \A j \in f.i..(f.last - 1) : ~less(ord, mem[j], mem[m])
                 /\ \A j \in f.i..(m - 1) : less(ord, mem[m], mem[j])
                 /\ mem' = iter_swap(mem, f.i, m)

\* C23: in selection_sort under a strict weak order, after k iterations
\* (i = begin + k, 0 <= k <= n) the first k positions of the range are
\* non-descending and none of their elements is greater than an element of
\* the rest; no later step writes them; and each iteration exchanges the
\* element at i with the least element of [i, end).
C23_SelectionPrefix ==
  /\ [](\A p \in Procs :
          (SelectionAt(p) /\ ord \in StrictWeak) =>
            LET f == Top(p)
            IN  /\ f.first <= f.i /\ f.i <= f.last
                /\ NonDescending(ord, SubSeq(mem, f.first, f.i - 1))
                /\ \A a \in f.first..(f.i - 1) : \A b \in f.i..(f.last - 1) :
                     ~less(ord, mem[b], mem[a]))
  /\ [][SelectionStep]_vars

C23_Witness ==
  \E p \in Procs :
    /\ SelectionAt(p)
    /\ ord = "lt"
    /\ Top(p).i - Top(p).first >= 2
    /\ Top(p).last - Top(p).i >= 2
    /\ mem # orig[p]
    /\ less(ord, mem[Top(p).i + 1], mem[Top(p).i])

\* the frames of merge_sort that have sorted their left half: those at the
\* call of the right half's sort (not the top frame) or at the merge (top)
AtMerge(p) ==
  {d \in DOMAIN stack[p] :
     stack[p][d].fn = "merge_sort" /\ stack[p][d].pc = "merge"}

\* while the right half is being sorted the left half is not written, and
\* the container changes under merge_sort only by the merge of the top
\* frame, whose two sub-sorts have returned
MergeAfterSubSorts ==
  /\ \A p \in Procs : \A d \in AtMerge(p) :
       d < Len(stack[p]) =>
         \A j \in stack[p][d].first..(stack[p][d].middle - 1) : mem'[j] = mem[j]
  /\ mem' # mem =>
       \E p \in Procs :
         /\ Running(p)
         /\ alg[p] = "merge_sort" =>
              /\ Top(p).pc = "merge"
              /\ mem' = inplace_merge(ord, mem, Top(p).first, Top(p).middle, Top(p).last)

\* C24: under a strict weak order, whenever merge_sort is at
\* std::inplace_merge(first, middle, last), [first, middle) and
\* [middle, last) are both non-descending; the left half stays sorted and
\* unwritten while the right half is sorted, and the merge is done by the
\* frame on top of the stack, after both of its sub-sorts have returned.
C24_MergeOnSortedHalves ==
  /\ [](\A p \in Procs : \A d \in AtMerge(p) :
          ord \in StrictWeak =>
            LET f == stack[p][d]
            IN  /\ NonDescending(ord, SubSeq(mem, f.first, f.middle - 1))
                /\ d = Len(stack[p]) =>
                     NonDescending(ord, SubSeq(mem, f.middle, f.last - 1)))
  /\ [][MergeAfterSubSorts]_vars

C24_Witness ==
  \E p \in Procs :
    /\ Running(p)
    /\ Top(p).fn = "merge_sort"
    /\ Top(p).pc = "merge"
    /\ ord = "lt"
    /\ Top(p).last - Top(p).first >= 4
    /\ SubSeq(mem, Top(p).first, Top(p).middle - 1)
         # SubSeq(orig[p], Top(p).first, Top(p).middle - 1)
    /\ SubSeq(mem, Top(p).middle, Top(p).last - 1)
         # SubSeq(orig[p], Top(p).middle, Top(p).last - 1)
    /\ inplace_merge(ord, mem, Top(p).first, Top(p).middle, Top(p).last) # mem

MergeFramesOf(p) ==
  {d \in DOMAIN stack[p] : stack[p][d].fn = "merge_sort"}

\* a merge_sort frame on a range of 0 or 1 elements returns from its entry
\* with the container as it is
MergeBaseCase ==
  \A p \in Procs :
    (/\ Running(p)
     /\ Top(p).fn = "merge_sort"
     /\ Top(p).last - Top(p).first <= 1
     /\ stack'[p] # stack[p]) =>
       /\ Top(p).pc = "entry"
       /\ stack'[p] = SubSeq(stack[p], 1, Len(stack[p]) - 1)
       /\ mem' = mem

\* C25: merge_sort on 0 or 1 elements returns without recursing or merging;
\* on n >= 2 elements middle = first + n / 2 (integer division), the left
\* half has n / 2 elements and the right half n - n / 2 = (n + 1) / 2, both
\* at least 1 and less than n, and the two recursive calls are on exactly
\* these halves.
C25_MergeSplit ==
  /\ [](\A p \in Procs : \A d \in MergeFramesOf(p) :
          LET f == stack[p][d]
              n == f.last - f.first
          IN  /\ n <= 1 => f.pc = "entry"
              /\ f.pc # "entry" =>
                   /\ n >= 2
                   /\ f.middle = f.first + n \div 2
                   /\ f.middle - f.first = n \div 2
                   /\ f.last - f.middle = (n + 1) \div 2
                   /\ f.middle - f.first >= 1 /\ f.middle - f.first < n
                   /\ f.last - f.middle >= 1 /\ f.last - f.middle < n
                   /\ d < Len(stack[p]) =>
                        LET g == stack[p][d + 1]
                        IN  /\ g.fn = "merge_sort"
                            /\ f.pc \in {"recurse2", "merge"}
                            /\ f.pc = "recurse2" =>
                                 (g.first = f.first /\ g.last = f.middle)
                            /\ f.pc = "merge" =>
                                 (g.first = f.middle /\ g.last = f.last))
  /\ [][MergeBaseCase]_vars

C25_Witness ==
  \E p \in Procs : \E d \in MergeFramesOf(p) :
    /\ Running(p)
    /\ d < Len(stack[p])
    /\ stack[p][d].last - stack[p][d].first = 3
    /\ stack[p][d].pc = "merge"
    /\ stack[p][d].last - stack[p][d].middle = 2
    /\ Top(p).fn = "merge_sort"
    /\ Top(p).pc = "entry"
    /\ Top(p).last - Top(p).first = 1

\* the number of quicksort frames of p on non-empty ranges
NestedNonEmpty(p) ==
  Cardinality({d \in DOMAIN stack[p] :
                 /\ stack[p][d].fn = "quicksort"
                 /\ stack[p][d].last - stack[p][d].first >= 1})

\* C26: for a quicksort call on n >= 1 elements whose operator< is
\* irreflexive, at most n quicksort frames on non-empty ranges are on the
\* stack at the same time, and each such frame's range is strictly shorter
\* than that of the frame below it.
C26_QuickDepth ==
  \A p \in Procs :
    (/\ alg[p] = "quicksort"
     /\ Irreflexive(ord)
     /\ range[p][2] - range[p][1] >= 1) =>
       /\ st[p] # "overflow"
       /\ NestedNonEmpty(p) <= range[p][2] - range[p][1]
       /\ \A d \in 2..Len(stack[p]) :
            stack[p][d].last - stack[p][d].first
              < stack[p][d - 1].last - stack[p][d - 1].first

C26_Witness ==
  \E p \in Procs :
    /\ alg[p] = "quicksort"
    /\ ord = "lt"
    /\ range[p][2] - range[p][1] >= 3
    /\ NestedNonEmpty(p) = range[p][2] - range[p][1]

\* ceil(log2(n)) for n >= 1: the least k with 2^k >= n
CeilLog2(n) == CHOOSE k \in 0..n : 2^k >= n /\ \A j \in 0..(k - 1) : 2^j < n

\* C27: for a merge_sort call on n >= 1 elements, at most ceil(log2(n)) + 1
\* merge_sort frames are on the stack at the same time, whatever the
\* elements and their operator< are.
C27_MergeDepth ==
  \A p \in Procs :
    (alg[p] = "merge_sort" /\ range[p][2] - range[p][1] >= 1) =>
      /\ st[p] # "overflow"
      /\ \A d \in DOMAIN stack[p] : stack[p][d].fn = "merge_sort"
      /\ Len(stack[p]) <= CeilLog2(range[p][2] - range[p][1]) + 1

C27_Witness ==
  \E p \in Procs :
    /\ alg[p] = "merge_sort"
    /\ range[p][2] - range[p][1] >= 3
    /\ 2^CeilLog2(range[p][2] - range[p][1]) > range[p][2] - range[p][1]
    /\ Len(stack[p]) = CeilLog2(range[p][2] - range[p][1]) + 1
    /\ HasDuplicateKeys(mem)

ExchangingSorts == {"selection_sort", "quicksort"}

\* positions i and j of s exchanged
Exchanged(s, i, j) == [s EXCEPT ![i] = s[j], ![j] = s[i]]

\* a step of a selection_sort or quicksort call leaves the container as it
\* is or exchanges two elements of the range of the frame that takes it
OnlyExchanges ==
  \A p \in Procs :
    (Running(p) /\ alg[p] \in ExchangingSorts /\ mem' # mem) =>
      \E i, j \in Top(p).first..(Top(p).last - 1) :
        /\ i # j
        /\ mem' = Exchanged(mem, i, j)

\* C28: selection_sort and quicksort write the container only by exchanging
\* two elements of the range, so in every state of a call, also inside the
\* library's min_element and partition and also when the call overflows
\* the stack, the container is a permutation of its contents at the call,
\* under every ordering relation, strict weak order or not.
C28_PermutationThroughout ==
  /\ [](\A p \in Procs :
          alg[p] \in ExchangingSorts =>
            /\ SameMultiset(mem, orig[p])
            /\ \A j \in DOMAIN mem :
                 (j < range[p][1] \/ j >= range[p][2]) => mem[j] = orig[p][j])
  /\ [][OnlyExchanges]_vars

C28_Witness ==
  \E p \in Procs :
    /\ Running(p)
    /\ alg[p] = "quicksort"
    /\ ord \notin StrictWeak
    /\ Top(p).pc = "partition1"
    /\ Ph(Top(p)) = "swap"
    /\ Len(stack[p]) >= 2
    /\ mem # orig[p]

\* the objects of vt and lt that own thread n
Owners(n) ==
  Cardinality({j \in DOMAIN vt : vt[j] = n}) + Cardinality({j \in DOMAIN lt : lt[j] = n})

\* a join returns only in the loop over lt, on the object the loop is at,
\* and for a thread that has ended
JoinedThroughList ==
  \A n \in Threads :
    joins'[n] # joins[n] =>
      /\ blk = "join"
      /\ pos \in DOMAIN lt
      /\ lt[pos] = n
      /\ thread[n] = "ended"
      /\ joins'[n] = joins[n] + 1
      /\ ~joinable(lt'[pos])

\* C29: in the std::move block the three started threads pass from vt to
\* lt (when the join loop begins lt owns threads 1, 2, 3 and no object of
\* vt is joinable), each thread is joined exactly once, through lt, before
\* the block ends, std::terminate is never called (no joinable object is
\* destroyed, the objects of vt and lt destroyed at the closing brace own
\* no thread), and the block ends, in whatever order the threads complete.
C29_ThreadsMovedAndJoined ==
  /\ [](/\ ~terminated
        /\ \A n \in Threads :
             /\ joins[n] <= 1
             /\ (thread[n] # "unstarted" /\ joins[n] = 0) => Owners(n) = 1
             /\ (thread[n] = "unstarted" \/ joins[n] = 1) => Owners(n) = 0
        /\ (blk = "join" /\ pos = 1) => lt = <<1, 2, 3>>
        /\ blk \in {"join", "end"} =>
             (Len(vt) = 3 /\ \A j \in DOMAIN vt : ~joinable(vt[j]))
        /\ blk \in {"end", "done"} =>
             /\ \A n \in Threads : joins[n] = 1 /\ thread[n] = "ended"
             /\ \A j \in DOMAIN lt : ~joinable(lt[j]))
  /\ [][JoinedThroughList]_vars
  /\ <>(blk = "done")

\* thread 3 has completed before thread 2, which the loop waits for
C29_Witness ==
  /\ blk = "join"
  /\ pos = 2
  /\ joins = [n \in Threads |-> IF n = 1 THEN 1 ELSE 0]
  /\ thread[2] = "sleeping"
  /\ thread[3] = "ended"
  /\ vt = <<NoThread, NoThread, NoThread>>
  /\ lt = <<NoThread, 2, 3>>

====
